---- MODULE Spec2Model ----
(***************************************************************************)
(* Flight Management System: the queries of FlightManagementSystem over    *)
(* the directed multigraph of flights: the route finder                    *)
(* (findBestFlightOptions, its airline-filtered overload,                  *)
(* findBestFlightOptionsWithFewestAirlines, minimizeAirlines and           *)
(* findSmallestDistance), the statistics (reachable destinations, longest  *)
(* trips, airports with most traffic, essential airports) and the queries  *)
(* by coordinates and by city.                                             *)
(*                                                                         *)
(* Graph.cpp is not part of the sources at hand: Graph::shortestPathsBFS,  *)
(* dfsVisit, nodesAtDistanceBFS and articulationPoints are modelled from   *)
(* section 4.1 of the design.                                              *)
(***************************************************************************)
EXTENDS Integers, Sequences, FiniteSets, TLC

----------------------------------------------------------------------------
(* Bounds of the model                                                     *)

\* largest number of flight records loaded into the graph
MaxEdges == 4
\* largest number of hops of an itinerary handed to minimizeAirlines
MaxHops == 3
\* largest number of airline codes listed on one hop handed to minimizeAirlines
MaxAirlinesPerHop == 2

\* airport codes, in the order in which the vertices are created
AirportSeq == <<"A", "B", "C", "D">>
\* airline codes
AirlineSeq == <<"X", "Y">>
\* ordered pairs of airports between which the snapshot may hold flights
PairSeq == << <<"A", "B">>, <<"A", "C">>, <<"A", "D">>,
              <<"B", "A">>, <<"B", "D">>, <<"C", "D">> >>

Range(s) == {s[i] : i \in 1..Len(s)}
Airports == Range(AirportSeq)
Airlines == Range(AirlineSeq)

\* physical distance of a flight between two airports (symmetric); the
\* direct flight A-D is longer than the detours through B and through C
PhysicalDistance(u, v) ==
    LET p == {u, v} IN
    IF p = {"A", "B"} THEN 1
    ELSE IF p = {"B", "D"} THEN 1
    ELSE IF p = {"A", "C"} THEN 2
    ELSE IF p = {"C", "D"} THEN 2
    ELSE IF p = {"A", "D"} THEN 5
    ELSE 4

\* the sentinel findSmallestDistance starts from: larger than every total
DBL_MAX == Len(AirportSeq) * 5 + 1

VARIABLES
    flights,    \* the graph: vertex code -> its outgoing edges, in order
    call,       \* the query that ran last and its arguments
    paths,      \* the vector<vector<Route>> the query returned
    result,     \* the double findSmallestDistance returned
    routes,     \* the itinerary handed to / returned by minimizeAirlines
    original,   \* the itinerary minimizeAirlines was first called with
    previous,   \* the itinerary minimizeAirlines was last called with
    applied,    \* how many times minimizeAirlines has been applied to it
    visited,    \* Vertex::visited of every vertex
    processing, \* Vertex::processing of every vertex
    num,        \* Vertex::num of every vertex
    out         \* what the query that ran last printed or returned

vars == <<flights, call, paths, result, routes, original, previous, applied,
          visited, processing, num, out>>

----------------------------------------------------------------------------
(* The graph                                                               *)

\* a flight record: (source, destination, airline), distance from positions
FlightRecords == {<<p, a>> : p \in 1..Len(PairSeq), a \in Airlines}

\* the sequences of n records grouped by ordered pair, from pair p onwards
\* (the order of the records of one pair is free: it is the order of the edges)
RECURSIVE GroupedRecords(_, _)
GroupedRecords(p, n) ==
    IF n = 0 THEN {<<>>}
    ELSE UNION {{<< <<q, a>> >> \o s :
                    a \in Airlines, s \in GroupedRecords(q, n - 1)} :
                q \in p..Len(PairSeq)}

\* the snapshots: at most MaxEdges flight records
Snapshots == UNION {GroupedRecords(1, n) : n \in 0..MaxEdges}

Edge(rec) ==
    [dest |-> PairSeq[rec[1]][2], airline |-> rec[2],
     distance |-> PhysicalDistance(PairSeq[rec[1]][1], PairSeq[rec[1]][2])]

RECURSIVE AdjOf(_, _, _)
AdjOf(snap, v, i) ==
    IF i > Len(snap) THEN <<>>
    ELSE IF PairSeq[snap[i][1]][1] = v
         THEN <<Edge(snap[i])>> \o AdjOf(snap, v, i + 1)
         ELSE AdjOf(snap, v, i + 1)

\* one vertex per airport code that appears in at least one flight
BuildGraph(snap) ==
    LET codes == {PairSeq[snap[i][1]][1] : i \in 1..Len(snap)} \cup
                 {PairSeq[snap[i][1]][2] : i \in 1..Len(snap)}
    IN [v \in codes |-> AdjOf(snap, v, 1)]

getVertexSet(G) ==
    LET In(c) == c \in DOMAIN G IN SelectSeq(AirportSeq, In)

----------------------------------------------------------------------------
(* Graph::shortestPathsBFS (design section 4.1, shortestPathSet)           *)

\* an edge may be used: no filter, an empty filter, or an allowed airline
edgeAllowed(e, filtered, selectedAirlines) ==
    \/ ~filtered
    \/ selectedAirlines = <<>>
    \/ e.airline \in Range(selectedAirlines)

\* the vertices one allowed edge away from a vertex of the frontier
successors(G, frontier, filtered, selectedAirlines) ==
    UNION {{G[u][i].dest : i \in {j \in 1..Len(G[u]) :
                edgeAllowed(G[u][j], filtered, selectedAirlines)}} : u \in frontier}

\* breadth-first layers: a vertex gets its distance the first time it is seen
RECURSIVE bfsDistance(_, _, _, _, _, _, _)
bfsDistance(G, frontier, seen, k, dist, filtered, selectedAirlines) ==
    IF frontier = {} THEN dist
    ELSE LET next == successors(G, frontier, filtered, selectedAirlines) \ seen
         IN bfsDistance(G, next, seen \cup next, k + 1,
                        [v \in DOMAIN dist \cup next |->
                            IF v \in next THEN k + 1 ELSE dist[v]],
                        filtered, selectedAirlines)

RECURSIVE extendAll(_, _, _)
extendAll(prefixes, v, i) ==
    IF i > Len(prefixes) THEN <<>>
    ELSE <<Append(prefixes[i], v)>> \o extendAll(prefixes, v, i + 1)

\* backward reconstruction: every edge (u, v) with dist[u] + 1 = dist[v] is
\* followed, one path per edge followed (parallel edges give equal paths)
RECURSIVE reconstruct(_, _, _, _, _, _)
RECURSIVE reconstructFrom(_, _, _, _, _, _, _, _)
reconstruct(G, dist, source, v, filtered, selectedAirlines) ==
    IF v = source THEN << <<source>> >>
    ELSE reconstructFrom(G, dist, source, v, 1, 1, filtered, selectedAirlines)
reconstructFrom(G, dist, source, v, ui, ei, filtered, selectedAirlines) ==
    LET vs == getVertexSet(G) IN
    IF ui > Len(vs) THEN <<>>
    ELSE LET u == vs[ui] IN
         IF ei > Len(G[u])
         THEN reconstructFrom(G, dist, source, v, ui + 1, 1, filtered, selectedAirlines)
         ELSE LET e == G[u][ei]
                  rest == reconstructFrom(G, dist, source, v, ui, ei + 1,
                                          filtered, selectedAirlines)
              IN IF /\ e.dest = v
                    /\ edgeAllowed(e, filtered, selectedAirlines)
                    /\ u \in DOMAIN dist
                    /\ dist[u] + 1 = dist[v]
                 THEN extendAll(reconstruct(G, dist, source, u, filtered,
                                            selectedAirlines), v, 1) \o rest
                 ELSE rest

\* all shortest paths, as sequences of airport codes; empty when a code is
\* absent from the graph or the destination is not reached
shortestPathsBFS(G, source, destination, filtered, selectedAirlines) ==
    IF source \notin DOMAIN G \/ destination \notin DOMAIN G THEN <<>>
    ELSE LET dist == bfsDistance(G, {source}, {source}, 0,
                                 [v \in {source} |-> 0], filtered, selectedAirlines)
         IN IF destination \notin DOMAIN dist THEN <<>>
            ELSE reconstruct(G, dist, source, destination, filtered, selectedAirlines)

----------------------------------------------------------------------------
(* Route and FlightManagementSystem::findBestFlightOptions                 *)

Route(s, t, als) == [source |-> s, target |-> t, airlines |-> als]

airlinesOf(edges) == [i \in 1..Len(edges) |-> edges[i].airline]

\* the airline of every edge from path[i] to path[i + 1], in edge order
flightAirlinesFirstOnly(G, s, t) ==
    LET To(e) == e.dest = t
        hit == SelectSeq(G[s], To)
    IN IF hit = <<>> THEN <<>> ELSE <<hit[1].airline>>
flightAirlines(G, s, t) ==
    LET To(e) == e.dest = t IN airlinesOf(SelectSeq(G[s], To))

\* the Route hops of one path: consecutive pairs of its airport codes
routePathShort(G, path) ==
    [i \in 1..(Len(path) - 2) |->
        Route(path[i], path[i + 1], flightAirlines(G, path[i], path[i + 1]))]
routePath(G, path) ==
    [i \in 1..(Len(path) - 1) |->
        Route(path[i], path[i + 1], flightAirlines(G, path[i], path[i + 1]))]

\* an itinerary is kept unless an equal one (operator== of Route on every
\* hop) is already in the result
pushBackAlways(acc, rp) == Append(acc, rp)
pushBackIfAbsent(acc, rp) ==
    IF \E k \in 1..Len(acc) : acc[k] = rp THEN acc ELSE Append(acc, rp)

RECURSIVE collectPaths(_, _, _, _)
collectPaths(G, shortestPaths, i, acc) ==
    IF i > Len(shortestPaths) THEN acc
    ELSE collectPaths(G, shortestPaths, i + 1,
                      pushBackIfAbsent(acc, routePath(G, shortestPaths[i])))

findBestFlightOptions(G, source, destination) ==
    collectPaths(G, shortestPathsBFS(G, source, destination, FALSE, <<>>), 1, <<>>)

----------------------------------------------------------------------------
(* findBestFlightOptions(source, destination, selectedAirlines)            *)

\* the airline of every edge from s to t whose airline is found in
\* selectedAirlines, in edge order
flightAirlinesUnchecked(G, s, t, selectedAirlines) ==
    LET To(e) == e.dest = t IN airlinesOf(SelectSeq(G[s], To))
flightAirlinesSelected(G, s, t, selectedAirlines) ==
    LET To(e) == e.dest = t /\ e.airline \in Range(selectedAirlines)
    IN airlinesOf(SelectSeq(G[s], To))

routePathSelectedShort(G, path, selectedAirlines) ==
    [i \in 1..(Len(path) - 2) |->
        Route(path[i], path[i + 1],
              flightAirlinesSelected(G, path[i], path[i + 1], selectedAirlines))]
routePathSelected(G, path, selectedAirlines) ==
    [i \in 1..(Len(path) - 1) |->
        Route(path[i], path[i + 1],
              flightAirlinesSelected(G, path[i], path[i + 1], selectedAirlines))]

RECURSIVE collectPathsSelected(_, _, _, _, _)
collectPathsSelected(G, shortestPaths, selectedAirlines, i, acc) ==
    IF i > Len(shortestPaths) THEN acc
    ELSE collectPathsSelected(G, shortestPaths, selectedAirlines, i + 1,
            pushBackIfAbsent(acc, routePathSelected(G, shortestPaths[i],
                                                    selectedAirlines)))

findBestFlightOptionsSelectedAnyPath(G, source, destination, selectedAirlines) ==
    collectPathsSelected(G,
        shortestPathsBFS(G, source, destination, FALSE, <<>>),
        selectedAirlines, 1, <<>>)
findBestFlightOptionsSelected(G, source, destination, selectedAirlines) ==
    collectPathsSelected(G,
        shortestPathsBFS(G, source, destination, TRUE, selectedAirlines),
        selectedAirlines, 1, <<>>)

----------------------------------------------------------------------------
(* minimizeAirlines and findBestFlightOptionsWithFewestAirlines            *)

\* the iteration orders an unordered_map over the airline codes may have
IterationOrders ==
    {o \in [1..Len(AirlineSeq) -> Airlines] : Range(o) = Airlines}

occurrences(als, a) == Cardinality({i \in 1..Len(als) : als[i] = a})

RECURSIVE countIn(_, _, _)
countIn(rs, a, i) ==
    IF i > Len(rs) THEN 0
    ELSE occurrences(rs[i].airlines, a) + countIn(rs, a, i + 1)

\* airlineCount[airline]++ for every airline of every route
airlineCount(rs) ==
    LET keys == UNION {Range(rs[i].airlines) : i \in 1..Len(rs)}
    IN [a \in keys |-> countIn(rs, a, 1)]

maxCountOf(count) ==
    IF DOMAIN count = {} THEN 0
    ELSE CHOOSE m \in {count[a] : a \in DOMAIN count} :
            \A a \in DOMAIN count : count[a] <= m

\* the airlines whose count is maxCount, in the map's iteration order
frequentAirlinesBelow(count, maxCount, order) ==
    LET Hit(a) == a \in DOMAIN count /\ count[a] < maxCount
    IN SelectSeq(order, Hit)
frequentAirlines(count, maxCount, order) ==
    LET Hit(a) == a \in DOMAIN count /\ count[a] = maxCount
    IN SelectSeq(order, Hit)

newRouteSwapped(route, frequent) ==
    [source |-> route.target, target |-> route.source, airlines |-> frequent]
newRoute(route, frequent) == [route EXCEPT !.airlines = frequent]

minimizeAirlines(rs, order) ==
    LET count == airlineCount(rs)
        maxCount == maxCountOf(count)
        frequent == frequentAirlines(count, maxCount, order)
    IN IF maxCount = Len(rs)
       THEN [i \in 1..Len(rs) |-> newRoute(rs[i], frequent)]
       ELSE rs

findBestFlightOptionsWithFewestAirlines(G, source, destination, order) ==
    LET found == findBestFlightOptions(G, source, destination)
    IN [i \in 1..Len(found) |-> minimizeAirlines(found[i], order)]

----------------------------------------------------------------------------
(* findSmallestDistance                                                    *)

\* the airports table: every airport of the snapshot, in the graph or not
airports == Airports

\* the distance of the first edge from src to dest (the loop breaks there)
RECURSIVE hopDistanceNoBreak(_, _, _, _)
hopDistanceNoBreak(G, src, dest, i) ==
    IF i > Len(G[src]) THEN 0
    ELSE (IF G[src][i].dest = dest THEN G[src][i].distance ELSE 0)
         + hopDistanceNoBreak(G, src, dest, i + 1)
RECURSIVE hopDistance(_, _, _, _)
hopDistance(G, src, dest, i) ==
    IF i > Len(G[src]) THEN 0
    ELSE IF G[src][i].dest = dest THEN G[src][i].distance
    ELSE hopDistance(G, src, dest, i + 1)

RECURSIVE totalDistance(_, _, _)
totalDistance(G, path, i) ==
    IF i > Len(path) THEN 0
    ELSE hopDistance(G, path[i].source, path[i].target, 1)
         + totalDistance(G, path, i + 1)

RECURSIVE minDistanceOver(_, _, _, _)
minDistanceOver(G, allPaths, i, minDistance) ==
    IF i > Len(allPaths) THEN minDistance
    ELSE LET total == totalDistance(G, allPaths[i], 1)
         IN minDistanceOver(G, allPaths, i + 1,
                            IF total < minDistance THEN total ELSE minDistance)

findSmallestDistance(G, source, destination) ==
    IF source \notin airports \/ destination \notin airports THEN 0
    ELSE minDistanceOver(G, findBestFlightOptions(G, source, destination),
                         1, DBL_MAX)

----------------------------------------------------------------------------
(* The queries as actions                                                  *)

\* a code that is in no table, for the queries that validate their codes
UnknownCode == "Z"
QueryCodes == Airports \cup {UnknownCode}

\* the airports the route queries start from (every flight of PairSeq can
\* be reached from them); the destination ranges over all airports
QuerySources == {"A", "B"}

\* the airline lists a caller may select
SelectedAirlineLists == {<<>>, <<"X">>, <<"Y">>, <<"X", "Y">>}

NoCall == [op |-> "none", source |-> "", destination |-> "",
           selectedAirlines |-> <<>>]

\* nothing printed or returned yet
NoOutput == [kind |-> "none"]

\* every vertex unvisited and unprocessed: the flags after graph
\* construction and after a traversal that resets them
resetFlags(G) == [v \in DOMAIN G |-> FALSE]

\* Vertex::num of every vertex after graph construction
resetNum(G) == [v \in DOMAIN G |-> 0]

Init ==
    /\ \E snap \in Snapshots : flights = BuildGraph(snap)
    /\ call = NoCall
    /\ paths = <<>>
    /\ result = 0
    /\ routes = <<>>
    /\ original = <<>>
    /\ previous = <<>>
    /\ applied = 0
    /\ visited = resetFlags(flights)
    /\ processing = resetFlags(flights)
    /\ num = resetNum(flights)
    /\ out = NoOutput

FindBestFlightOptions ==
    \E s \in QuerySources, d \in Airports :
        /\ call.op = "none"
        /\ call' = [op |-> "findBestFlightOptions", source |-> s,
                    destination |-> d, selectedAirlines |-> <<>>]
        /\ paths' = findBestFlightOptions(flights, s, d)
        /\ result' = 0
        /\ visited' = resetFlags(flights)
        /\ processing' = resetFlags(flights)
        /\ out' = NoOutput
        /\ UNCHANGED <<flights, routes, original, previous, applied, num>>

FindBestFlightOptionsSelected ==
    \E s \in QuerySources, d \in Airports, sel \in SelectedAirlineLists :
        /\ call.op = "none"
        /\ call' = [op |-> "findBestFlightOptionsSelected", source |-> s,
                    destination |-> d, selectedAirlines |-> sel]
        /\ paths' = findBestFlightOptionsSelected(flights, s, d, sel)
        /\ result' = 0
        /\ visited' = resetFlags(flights)
        /\ processing' = resetFlags(flights)
        /\ out' = NoOutput
        /\ UNCHANGED <<flights, routes, original, previous, applied, num>>

FindBestFlightOptionsWithFewestAirlines ==
    \E s \in QuerySources, d \in Airports, order \in IterationOrders :
        /\ call.op = "none"
        /\ call' = [op |-> "findBestFlightOptionsWithFewestAirlines",
                    source |-> s, destination |-> d, selectedAirlines |-> <<>>]
        /\ paths' = findBestFlightOptionsWithFewestAirlines(flights, s, d, order)
        /\ result' = 0
        /\ visited' = resetFlags(flights)
        /\ processing' = resetFlags(flights)
        /\ out' = NoOutput
        /\ UNCHANGED <<flights, routes, original, previous, applied, num>>

FindSmallestDistance ==
    \E s \in QuerySources \cup {UnknownCode}, d \in QueryCodes :
        /\ call.op = "none"
        /\ call' = [op |-> "findSmallestDistance", source |-> s,
                    destination |-> d, selectedAirlines |-> <<>>]
        /\ paths' = <<>>
        /\ result' = findSmallestDistance(flights, s, d)
        /\ visited' = resetFlags(flights)
        /\ processing' = resetFlags(flights)
        /\ out' = [kind |-> "value",
                   value |-> findSmallestDistance(flights, s, d)]
        /\ UNCHANGED <<flights, routes, original, previous, applied, num>>

\* the query has returned and its result was printed: back to the menu
ReturnToMenu ==
    /\ call.op \notin {"none", "minimizeAirlines"}
    /\ out.kind \notin {"crash", "running"}
    /\ call' = NoCall
    /\ paths' = <<>>
    /\ result' = 0
    /\ out' = NoOutput
    /\ UNCHANGED <<flights, routes, original, previous, applied,
                   visited, processing, num>>

Next ==
    \/ ReturnToMenu
    \/ FindBestFlightOptions
    \/ FindBestFlightOptionsSelected
    \/ FindBestFlightOptionsWithFewestAirlines
    \/ FindSmallestDistance

Spec == Init /\ [][Next]_vars

----------------------------------------------------------------------------
(* minimizeAirlines on its own: the itineraries it may be handed           *)

MaxApplications == 2

AirlineLists ==
    UNION {[1..n -> Airlines] : n \in 1..MaxAirlinesPerHop}

\* hop i of a chain of airports: A->B, B->C, C->D, D->A, A->B, ...
ChainRoute(i, als) ==
    Route(AirportSeq[((i - 1) % Len(AirportSeq)) + 1],
          AirportSeq[(i % Len(AirportSeq)) + 1], als)

\* the itinerary whose hop i lists the airlines lists[i]
ItineraryOf(lists) == [i \in 1..Len(lists) |-> ChainRoute(i, lists[i])]

InitMinimize ==
    /\ flights = BuildGraph(<<>>)
    /\ call = NoCall
    /\ paths = <<>>
    /\ result = 0
    /\ \E n \in 0..MaxHops : \E lists \in [1..n -> AirlineLists] :
            routes = ItineraryOf(lists)
    /\ original = routes
    /\ previous = routes
    /\ applied = 0
    /\ visited = resetFlags(flights)
    /\ processing = resetFlags(flights)
    /\ num = resetNum(flights)
    /\ out = NoOutput

MinimizeAirlines ==
    /\ applied < MaxApplications
    /\ \E order \in IterationOrders : routes' = minimizeAirlines(routes, order)
    /\ previous' = routes
    /\ applied' = applied + 1
    /\ call' = [NoCall EXCEPT !.op = "minimizeAirlines"]
    /\ UNCHANGED <<flights, paths, result, original,
                   visited, processing, num, out>>

NextMinimize == MinimizeAirlines

SpecMinimize == InitMinimize /\ [][NextMinimize]_vars

----------------------------------------------------------------------------
(* Reference notions the properties are stated with                        *)

\* there is a flight from u to v (of an airline of allowed, when restricted)
HasFlight(G, u, v, restricted, allowed) ==
    \E i \in 1..Len(G[u]) :
        /\ G[u][i].dest = v
        /\ restricted => G[u][i].airline \in allowed

\* the airport sequences of exactly k flights that start at s
RECURSIVE Walks(_, _, _, _, _)
Walks(G, s, k, restricted, allowed) ==
    IF k = 0 THEN {<<s>>}
    ELSE UNION {{Append(w, v) : v \in {x \in DOMAIN G :
                        HasFlight(G, w[Len(w)], x, restricted, allowed)}} :
                w \in Walks(G, s, k - 1, restricted, allowed)}

WalksTo(G, s, d, k, restricted, allowed) ==
    {w \in Walks(G, s, k, restricted, allowed) : w[Len(w)] = d}

HopCounts(G, s, d, restricted, allowed) ==
    IF s \in DOMAIN G /\ d \in DOMAIN G
    THEN {k \in 0..(Cardinality(DOMAIN G) - 1) :
            WalksTo(G, s, d, k, restricted, allowed) # {}}
    ELSE {}

Reachable(G, s, d) == HopCounts(G, s, d, FALSE, {}) # {}

\* the shortest hop distance from s to d, when d is reachable from s
HopDistance(G, s, d, restricted, allowed) ==
    CHOOSE k \in HopCounts(G, s, d, restricted, allowed) :
        \A j \in HopCounts(G, s, d, restricted, allowed) : k <= j

\* the fewest-hop airport sequences from s to d
ShortestSequences(G, s, d) ==
    IF Reachable(G, s, d)
    THEN WalksTo(G, s, d, HopDistance(G, s, d, FALSE, {}), FALSE, {})
    ELSE {}

\* the airports an itinerary that starts at s visits, in order
AirportSequence(s, itinerary) ==
    <<s>> \o [h \in 1..Len(itinerary) |-> itinerary[h].target]

\* the ordered (source, target) pairs of an itinerary
HopPairs(itinerary) ==
    [h \in 1..Len(itinerary) |-> <<itinerary[h].source, itinerary[h].target>>]

IsUnfiltered == call.op = "findBestFlightOptions"
IsSelected == call.op = "findBestFlightOptionsSelected"
IsFewest == call.op = "findBestFlightOptionsWithFewestAirlines"
IsSmallest == call.op = "findSmallestDistance"

\* what the unfiltered search returns for the arguments of the last call
Unfiltered == findBestFlightOptions(flights, call.source, call.destination)

----------------------------------------------------------------------------
(* C1: every itinerary findBestFlightOptions(s, d) returns for a d that is  *)
(* reachable from s has as many hops as the shortest hop distance from s   *)
(* to d, so all returned itineraries have the same number of hops.         *)
C1_ShortestHopCount ==
    (IsUnfiltered /\ Reachable(flights, call.source, call.destination)) =>
        \A i \in 1..Len(paths) :
            Len(paths[i]) = HopDistance(flights, call.source,
                                        call.destination, FALSE, {})

\* two itineraries of two hops each were returned
C1_Witness ==
    /\ IsUnfiltered
    /\ Len(paths) >= 2
    /\ Len(paths[1]) = 2
    /\ Len(paths[2]) = 2

(* C2: findBestFlightOptions(s, d) returns exactly one itinerary for each   *)
(* fewest-hop airport sequence from s to d: none is missing, and no two    *)
(* returned itineraries are equal.                                         *)
C2_EveryShortestSequenceOnce ==
    IsUnfiltered =>
        /\ {AirportSequence(call.source, paths[i]) : i \in 1..Len(paths)}
             = ShortestSequences(flights, call.source, call.destination)
        /\ Len(paths) = Cardinality(ShortestSequences(flights, call.source,
                                                      call.destination))
        /\ \A i, j \in 1..Len(paths) : i # j => paths[i] # paths[j]

\* two different shortest sequences were returned
C2_Witness ==
    /\ IsUnfiltered
    /\ Len(paths) = 2
    /\ Len(paths[1]) = 2
    /\ AirportSequence(call.source, paths[1]) # AirportSequence(call.source, paths[2])

(* C3: every airline code in any hop of any itinerary returned by           *)
(* findBestFlightOptions(s, d, A) is a member of A.                        *)
C3_OnlySelectedAirlines ==
    IsSelected =>
        \A i \in 1..Len(paths) : \A h \in 1..Len(paths[i]) :
            Range(paths[i][h].airlines) \subseteq Range(call.selectedAirlines)

\* a hop was returned for which the graph also holds a flight of an airline
\* that was not selected
C3_Witness ==
    /\ IsSelected
    /\ \E i \in 1..Len(paths) : \E h \in 1..Len(paths[i]) :
        /\ paths[i][h].airlines # <<>>
        /\ \E e \in 1..Len(flights[paths[i][h].source]) :
            /\ flights[paths[i][h].source][e].dest = paths[i][h].target
            /\ flights[paths[i][h].source][e].airline
                    \notin Range(call.selectedAirlines)

\* the airlines a list allows: every airline when the list is empty
AllowedAirlines(selectedAirlines) ==
    IF selectedAirlines = <<>> THEN Airlines ELSE Range(selectedAirlines)

\* the unfiltered itineraries all of whose hops have an airline of allowed
UnfilteredRestricted(allowed) ==
    {Unfiltered[j] : j \in {k \in 1..Len(Unfiltered) :
        \A h \in 1..Len(Unfiltered[k]) :
            Range(Unfiltered[k][h].airlines) \cap allowed # {}}}

(* C4, as stated: every itinerary of findBestFlightOptions(s, d, A) visits  *)
(* the airport sequence of some itinerary of findBestFlightOptions(s, d)   *)
(* all of whose hops have an airline of A, and has at least as many hops.  *)
C4_SubsetOfUnfiltered ==
    IsSelected =>
        \A i \in 1..Len(paths) :
            \E u \in UnfilteredRestricted(AllowedAirlines(call.selectedAirlines)) :
                /\ HopPairs(paths[i]) = HopPairs(u)
                /\ Len(paths[i]) >= Len(u)

(* C4, amended: an itinerary of findBestFlightOptions(s, d, A) never has    *)
(* fewer hops than the itineraries of findBestFlightOptions(s, d), and     *)
(* when it has as many hops it visits the airport sequence of one of them. *)
C4_NeverShorterThanUnfiltered ==
    IsSelected =>
        \A i \in 1..Len(paths) :
            /\ Unfiltered # <<>>
            /\ Len(paths[i]) >= Len(Unfiltered[1])
            /\ Len(paths[i]) = Len(Unfiltered[1]) =>
                \E j \in 1..Len(Unfiltered) :
                    HopPairs(paths[i]) = HopPairs(Unfiltered[j])

\* the selected airlines reach the destination only by a longer route
C4_Witness ==
    /\ IsSelected
    /\ call.selectedAirlines # <<>>
    /\ paths # <<>>
    /\ Len(paths[1]) > Len(Unfiltered[1])

(* C5: with an empty airline list findBestFlightOptions(s, d, A) returns    *)
(* the itineraries of findBestFlightOptions(s, d), with the same per-hop   *)
(* airline lists.                                                          *)
C5_EmptyFilterIsNoFilter ==
    (IsSelected /\ call.selectedAirlines = <<>>) => paths = Unfiltered

\* the flights from u to v operated by airline a
FlightsOf(G, u, v, a) ==
    {i \in 1..Len(G[u]) : G[u][i].dest = v /\ G[u][i].airline = a}

RECURSIVE SequenceDistance(_, _)
SequenceDistance(w, i) ==
    IF i >= Len(w) THEN 0
    ELSE PhysicalDistance(w[i], w[i + 1]) + SequenceDistance(w, i + 1)

SameItinerary(r1, r2) ==
    /\ HopPairs(r1) = HopPairs(r2)
    /\ \A h \in 1..Len(r1) : Range(r1[h].airlines) = Range(r2[h].airlines)

(* C8: minimizeAirlines is idempotent: applied to its own result it gives   *)
(* the same hops with the same airline set on each hop.                    *)
C8_MinimizeIdempotent ==
    applied >= 2 => SameItinerary(routes, previous)

\* the first application rewrote the airline sets and the second has run
C8_Witness ==
    /\ applied = 2
    /\ Len(routes) >= 2
    /\ \E h \in 1..Len(routes) :
        Range(routes[h].airlines) # Range(original[h].airlines)

\* the airlines that operate every hop of an itinerary
OnEveryHop(itinerary) ==
    {a \in Airlines : \A h \in 1..Len(itinerary) :
        a \in Range(itinerary[h].airlines)}

(* C9: minimizeAirlines rewrites the airline sets only if some airline      *)
(* operates every hop (the greatest number of hops one airline operates    *)
(* equals the hop count); then every hop gets the set of the airlines that *)
(* operate every hop, and otherwise the itinerary is returned unchanged.   *)
C9_RewriteOnlyWhenCovered ==
    IsFewest =>
        /\ Len(paths) = Len(Unfiltered)
        /\ \A i \in 1..Len(paths) :
            IF OnEveryHop(Unfiltered[i]) # {} /\ Unfiltered[i] # <<>>
            THEN \A h \in 1..Len(paths[i]) :
                    Range(paths[i][h].airlines) = OnEveryHop(Unfiltered[i])
            ELSE paths[i] = Unfiltered[i]

(* C10: findBestFlightOptionsWithFewestAirlines and minimizeAirlines never  *)
(* change the hops: as many itineraries as findBestFlightOptions returns,  *)
(* each with the same ordered (source, target) pairs.                      *)
C10_HopSequenceKept ==
    IsFewest =>
        /\ Len(paths) = Len(Unfiltered)
        /\ \A i \in 1..Len(paths) : HopPairs(paths[i]) = HopPairs(Unfiltered[i])

\* an itinerary of two hops came back with rewritten airline lists
C10_Witness ==
    /\ IsFewest
    /\ \E i \in 1..Len(paths) :
        /\ Len(paths[i]) = 2
        /\ \E h \in 1..2 : paths[i][h].airlines # Unfiltered[i][h].airlines

----------------------------------------------------------------------------
(* The network the statistics are asked of                                 *)

\* largest number of flight records of a network
MaxFlights == 4

\* the flights a network may hold, each any number of times: a same-airport
\* flight, the rings A->B->C->A and B->C->D->B, two airlines on A->B and B->C
NetworkFlightSeq ==
    << <<"A", "A", "X">>, <<"A", "B", "X">>, <<"A", "B", "Y">>,
       <<"B", "C", "X">>, <<"B", "C", "Y">>, <<"C", "A", "X">>,
       <<"C", "D", "X">>, <<"D", "B", "X">> >>

\* the sequences of n flights of NetworkFlightSeq in non-decreasing order,
\* from flight p onwards
RECURSIVE NetworkRecords(_, _)
NetworkRecords(p, n) ==
    IF n = 0 THEN {<<>>}
    ELSE UNION {{<<NetworkFlightSeq[q]>> \o s :
                    s \in NetworkRecords(q, n - 1)} :
                q \in p..Len(NetworkFlightSeq)}

Networks == UNION {NetworkRecords(1, n) : n \in 0..MaxFlights}

NetworkEdge(rec) ==
    [dest |-> rec[2], airline |-> rec[3],
     distance |-> PhysicalDistance(rec[1], rec[2])]

RECURSIVE NetworkAdjOf(_, _, _)
NetworkAdjOf(snap, v, i) ==
    IF i > Len(snap) THEN <<>>
    ELSE IF snap[i][1] = v
         THEN <<NetworkEdge(snap[i])>> \o NetworkAdjOf(snap, v, i + 1)
         ELSE NetworkAdjOf(snap, v, i + 1)

\* one vertex per airport code that appears in at least one flight
BuildNetwork(snap) ==
    LET codes == {snap[i][1] : i \in 1..Len(snap)} \cup
                 {snap[i][2] : i \in 1..Len(snap)}
    IN [v \in codes |-> NetworkAdjOf(snap, v, 1)]

\* Vertex::getOutdegree and Vertex::getIndegree: the edges leaving and
\* entering a vertex, parallel edges counted one by one
getOutdegree(G, v) == Len(G[v])

getIndegree(G, v) ==
    LET entering(u) == Cardinality({i \in 1..Len(G[u]) : G[u][i].dest = v})
        RECURSIVE sum(_)
        sum(i) == IF i = 0 THEN 0
                  ELSE entering(getVertexSet(G)[i]) + sum(i - 1)
    IN sum(Len(getVertexSet(G)))

----------------------------------------------------------------------------
(* The airports table                                                      *)

\* Airport::getCity and Airport::getCountry: A and D are two airports of
\* one city, C is in a city of the same name in another country
getCity(code) == IF code = "B" THEN "Lisbon" ELSE "Porto"
getCountry(code) == IF code = "C" THEN "US" ELSE "PT"

\* size_t arithmetic wraps around: the modulus stands for 2^64
SizeModulus == 65536

----------------------------------------------------------------------------
(* getMaxTripWithStops and calcStopsBFS                                    *)

\* the loop over the edges of the vertex at the front of the queue: a
\* destination not in the local set is queued one hop further
RECURSIVE enqueueAdjUnvisited(_, _, _, _, _)
enqueueAdjUnvisited(G, current, distance, i, st) ==
    IF i > Len(G[current]) THEN st
    ELSE LET w == G[current][i].dest IN
         enqueueAdjUnvisited(G, current, distance, i + 1,
            IF st.visited[w] THEN st
            ELSE [st EXCEPT !.q = Append(@, <<w, distance + 1>>),
                            !.processing[w] = TRUE,
                            !.seen = @ \cup {w}])
RECURSIVE enqueueAdj(_, _, _, _, _)
enqueueAdj(G, current, distance, i, st) ==
    IF i > Len(G[current]) THEN st
    ELSE LET w == G[current][i].dest IN
         enqueueAdj(G, current, distance, i + 1,
            IF w \in st.seen THEN st
            ELSE [st EXCEPT !.q = Append(@, <<w, distance + 1>>),
                            !.processing[w] = TRUE,
                            !.seen = @ \cup {w}])

\* the update of maxdistance and aux for the front of the queue
recordFar(source, front, st) ==
    IF front[2] >= st.maxdistance
    THEN [st EXCEPT !.maxdistance = front[2],
                    !.aux = <<[first |-> source, second |-> front[1]]>>]
    ELSE st

recordFarthest(source, front, st) ==
    IF front[2] > st.maxdistance
    THEN [st EXCEPT !.maxdistance = front[2],
                    !.aux = <<[first |-> source, second |-> front[1]]>>]
    ELSE IF front[2] = st.maxdistance
    THEN [st EXCEPT !.aux = Append(@, [first |-> source,
                                       second |-> front[1]])]
    ELSE st

\* one iteration of the loop: the front of the queue is recorded, its
\* destinations are queued, and it is popped and marked visited
bfsStep(G, source, st) ==
    LET front == Head(st.q)
        far == recordFarthest(source, front, st)
        grown == enqueueAdj(G, front[1], front[2], 1, far)
    IN [grown EXCEPT !.q = Tail(@),
                     !.visited[front[1]] = TRUE,
                     !.processing[front[1]] = FALSE]

\* while (!q.empty())
RECURSIVE bfsLoop(_, _, _)
bfsLoop(G, source, st) ==
    IF st.q = <<>> THEN st
    ELSE bfsLoop(G, source, bfsStep(G, source, st))

\* the state calcStopsBFS enters its loop with: the flags cleared, the
\* source queued at distance 0, marked processing and put in the local set
bfsEntry(G, source, aux) ==
    [q |-> << <<source, 0>> >>, seen |-> {source}, maxdistance |-> 0,
     aux |-> aux, visited |-> resetFlags(G),
     processing |-> [resetFlags(G) EXCEPT ![source] = TRUE]]

\* calcStopsBFS(source, aux): maxdistance is the value returned, aux the
\* pairs written, visited and processing the flags it leaves on the vertices
calcStopsBFS(G, source, aux) == bfsLoop(G, source, bfsEntry(G, source, aux))

\* one iteration of the loop of getMaxTripWithStops over the sources
keepLongest(acc, run) ==
    IF run.maxdistance > acc.maxStops
    THEN [acc EXCEPT !.maxStops = run.maxdistance,
                     !.maxTripAirports = run.aux]
    ELSE IF run.maxdistance = acc.maxStops
    THEN [acc EXCEPT !.maxTripAirports = @ \o run.aux]
    ELSE acc

RECURSIVE scanSources(_, _, _)
scanSources(G, i, acc) ==
    IF i > Len(getVertexSet(G)) THEN acc
    ELSE LET run == calcStopsBFS(G, getVertexSet(G)[i], <<>>)
         IN scanSources(G, i + 1,
                [keepLongest(acc, run) EXCEPT !.visited = run.visited,
                                              !.processing = run.processing])

\* getMaxTripWithStops: what it prints, and the flags it leaves (vis and
\* proc are the flags before the call)
getMaxTripWithStops(G, vis, proc) ==
    scanSources(G, 1, [maxStops |-> 0, maxTripAirports |-> <<>>,
                       visited |-> vis, processing |-> proc])

----------------------------------------------------------------------------
(* Graph::dfsVisit and Graph::nodesAtDistanceBFS (design section 4.1,      *)
(* depthFirstReach and nodesWithinHops)                                    *)

\* the standard depth-first traversal on the visited flags of the vertices:
\* v is marked and recorded, then every destination not yet marked is
\* visited; the flags are the ones the vertices carry when it starts
RECURSIVE dfsVisit(_, _, _)
RECURSIVE dfsAdj(_, _, _, _)
dfsVisit(G, v, st) ==
    dfsAdj(G, v, 1, [visited |-> [st.visited EXCEPT ![v] = TRUE],
                     res |-> Append(st.res, v)])

dfsAdj(G, v, i, st) ==
    IF i > Len(G[v]) THEN st
    ELSE LET w == G[v][i].dest IN
         dfsAdj(G, v, i + 1, IF st.visited[w] THEN st ELSE dfsVisit(G, w, st))

\* the vertices at distance 1..maxHops of the source, the source excluded, a
\* vertex reached over parallel edges counted once
nodesAtDistanceBFS(G, source, maxHops) ==
    LET dist == bfsDistance(G, {source}, {source}, 0,
                            [v \in {source} |-> 0], FALSE, <<>>)
    IN  IF source \notin DOMAIN G THEN {}
        ELSE {v \in DOMAIN dist : dist[v] >= 1 /\ dist[v] <= maxHops}

----------------------------------------------------------------------------
(* numberOfReachableDestinationsFromAirport and ...WithStops               *)

\* the sets built from the destinations and the three numbers printed
countDestinations(destinations, airportCode) ==
    LET cities == {<<getCity(c), getCountry(c)>> : c \in destinations}
        countries == {getCountry(c) : c \in destinations}
        flagCity == ~ \E c \in destinations :
                        c # airportCode /\ getCity(c) = getCity(airportCode)
        flagCountry == ~ \E c \in destinations :
                        c # airportCode /\ getCountry(c) = getCountry(airportCode)
        int(flag) == IF flag THEN 1 ELSE 0
    IN [airports |-> (Cardinality(destinations) - 1) % SizeModulus,
        cities |-> (Cardinality(cities) - int(flagCity)) % SizeModulus,
        countries |-> (Cardinality(countries) - int(flagCountry)) % SizeModulus]

\* the depth-first traversal runs on the flags as they are (vis)
numberOfReachableDestinationsFromAirport(G, airportCode, vis) ==
    LET run == dfsVisit(G, airportCode, [visited |-> vis, res |-> <<>>])
    IN countDestinations(Range(run.res), airportCode)

numberOfReachableDestinationsFromAirportWithStops(G, airportCode, maxStops) ==
    countDestinations(nodesAtDistanceBFS(G, airportCode, maxStops + 1),
                      airportCode)

----------------------------------------------------------------------------
(* The statistics queries as actions                                       *)

\* largest number of stops asked of the reachability query; the parameter is
\* an int, and -1 stops is the hop bound 0
MaxStops == 2

\* Graph::findVertex: the vertex of a code, NULL when there is none
NULL == "NULL"
findVertex(G, code) == IF code \in DOMAIN G THEN code ELSE NULL

\* what a dereference of NULL may do: end the process, or read on
Undefined == {[kind |-> "crash"], [kind |-> "garbage"]}

InitStatistics ==
    /\ \E snap \in Networks : flights = BuildNetwork(snap)
    /\ call = NoCall
    /\ paths = <<>>
    /\ result = 0
    /\ routes = <<>>
    /\ original = <<>>
    /\ previous = <<>>
    /\ applied = 0
    /\ visited = resetFlags(flights)
    /\ processing = resetFlags(flights)
    /\ num = resetNum(flights)
    /\ out = NoOutput

GetMaxTripWithStops ==
    /\ call.op = "none"
    /\ call' = [NoCall EXCEPT !.op = "getMaxTripWithStops"]
    /\ LET run == getMaxTripWithStops(flights, visited, processing) IN
        /\ out' = [kind |-> "maxTrip", maxStops |-> run.maxStops,
                   maxTripAirports |-> run.maxTripAirports]
        /\ visited' = run.visited
        /\ processing' = run.processing
    /\ UNCHANGED <<flights, paths, result, routes, original, previous,
                   applied, num>>

NumberOfReachableDestinationsFromAirport ==
    \E code \in QueryCodes :
        /\ call.op = "none"
        /\ call' = [NoCall EXCEPT
                        !.op = "numberOfReachableDestinationsFromAirport",
                        !.source = code]
        /\ IF findVertex(flights, code) = NULL
           THEN /\ out' \in Undefined
                /\ UNCHANGED visited
           ELSE /\ out' = [kind |-> "counts"] @@
                    numberOfReachableDestinationsFromAirport(flights, code,
                                                             visited)
                /\ visited' = resetFlags(flights)
        /\ UNCHANGED <<flights, paths, result, routes, original, previous,
                       applied, processing, num>>

NumberOfReachableDestinationsFromAirportWithStops ==
    \E code \in QueryCodes, maxStops \in (-1)..MaxStops :
        /\ call.op = "none"
        /\ call' = [op |-> "numberOfReachableDestinationsFromAirportWithStops",
                    source |-> code, destination |-> "",
                    selectedAirlines |-> <<>>, maxStops |-> maxStops]
        /\ out' = [kind |-> "counts"] @@
               numberOfReachableDestinationsFromAirportWithStops(flights, code,
                                                                 maxStops)
        /\ visited' = resetFlags(flights)
        /\ UNCHANGED <<flights, paths, result, routes, original, previous,
                       applied, processing, num>>

\* the queries that return a number for an airport code: the vertex that
\* findVertex returns is used as it comes
getNumberOfFlightsFromAirport(G, airportCode) ==
    getOutdegree(G, findVertex(G, airportCode))

getNumberOfAirlinesFromAirport(G, airportCode) ==
    LET vertex == findVertex(G, airportCode)
    IN Cardinality({G[vertex][i].airline : i \in 1..Len(G[vertex])})

getNumberOfCountriesFromAirport(G, airportCode) ==
    LET vertex == findVertex(G, airportCode)
    IN Cardinality({getCountry(G[vertex][i].dest) : i \in 1..Len(G[vertex])})

GetNumberOfFlightsFromAirport ==
    \E code \in QueryCodes :
        /\ call.op = "none"
        /\ call' = [NoCall EXCEPT !.op = "getNumberOfFlightsFromAirport",
                                  !.source = code]
        /\ IF findVertex(flights, code) = NULL
           THEN out' \in Undefined
           ELSE out' = [kind |-> "value",
                        value |-> getNumberOfFlightsFromAirport(flights, code)]
        /\ UNCHANGED <<flights, paths, result, routes, original, previous,
                       applied, visited, processing, num>>

GetNumberOfAirlinesFromAirport ==
    \E code \in QueryCodes :
        /\ call.op = "none"
        /\ call' = [NoCall EXCEPT !.op = "getNumberOfAirlinesFromAirport",
                                  !.source = code]
        /\ IF findVertex(flights, code) = NULL
           THEN out' \in Undefined
           ELSE out' = [kind |-> "value",
                        value |-> getNumberOfAirlinesFromAirport(flights, code)]
        /\ UNCHANGED <<flights, paths, result, routes, original, previous,
                       applied, visited, processing, num>>

GetNumberOfCountriesFromAirport ==
    \E code \in QueryCodes :
        /\ call.op = "none"
        /\ call' = [NoCall EXCEPT !.op = "getNumberOfCountriesFromAirport",
                                  !.source = code]
        /\ IF findVertex(flights, code) = NULL
           THEN out' \in Undefined
           ELSE out' = [kind |-> "value",
                        value |-> getNumberOfCountriesFromAirport(flights, code)]
        /\ UNCHANGED <<flights, paths, result, routes, original, previous,
                       applied, visited, processing, num>>

\* getTopAirportWithMostTraffic: indegree + outdegree of every vertex, and
\* the comparison handed to sort
trafficOf(G) ==
    [v \in DOMAIN G |-> getIndegree(G, v) + getOutdegree(G, v)]

moreTraffic(traffic, a, b) == traffic[a] < traffic[b]

comesBefore(traffic, a, b) == traffic[a] > traffic[b]

\* the orders sort may leave the vertices in: no vertex stands behind one
\* it comes before (vertices of equal traffic in any order)
sortedByTraffic(G) ==
    LET n == Len(getVertexSet(G))
        traffic == trafficOf(G)
    IN {res \in [1..n -> DOMAIN G] :
            /\ \A i, j \in 1..n : i # j => res[i] # res[j]
            /\ \A i, j \in 1..n :
                    i < j => ~comesBefore(traffic, res[j], res[i])}

\* the codes printed from the sorted vector res
getTopAirportWithMostTraffic(G, res, k) ==
    IF k <= 0 \/ k > Len(getVertexSet(G)) THEN <<>>
    ELSE [i \in 1..k |-> res[i]]

\* the values of k asked: from below 1 to above the number of airports
TopRange == (-1)..(Len(AirportSeq) + 1)

GetTopAirportWithMostTraffic ==
    /\ call.op = "none"
    /\ \E k \in TopRange : \E res \in sortedByTraffic(flights) :
        /\ call' = [op |-> "getTopAirportWithMostTraffic", source |-> "",
                    destination |-> "", selectedAirlines |-> <<>>, k |-> k]
        /\ out' = [kind |-> "top",
                   list |-> getTopAirportWithMostTraffic(flights, res, k)]
        /\ UNCHANGED <<flights, paths, result, routes, original, previous,
                       applied, visited, processing, num>>

\* Graph::articulationPoints (design section 4.1): the low-link and
\* discovery-time algorithm on the network read as an undirected graph
\* the vertices joined to u by a flight in either direction, in vertex order
neighbours(G, u) ==
    LET joined(w) ==
            \/ \E i \in 1..Len(G[u]) : G[u][i].dest = w
            \/ \E i \in 1..Len(G[w]) : G[w][i].dest = u
    IN SelectSeq(getVertexSet(G), joined)

min(a, b) == IF a < b THEN a ELSE b

\* a non-root vertex is a cut vertex for a child w with low[w] >= disc[u]
cutsAbove(lowChild, discParent) == lowChild > discParent

cutsOff(lowChild, discParent) == lowChild >= discParent

\* the root is a cut vertex when it has more than one child in the tree
rootCuts(children) == children > 1

\* the scan from u, entered from parent (NULL at a root): st holds the
\* discovery times, the low links, the clock and the cut vertices found
RECURSIVE articulationScan(_, _, _, _)
RECURSIVE articulationAdj(_, _, _, _, _, _)
articulationScan(G, u, parent, st) ==
    articulationAdj(G, u, parent, 1, 0,
        [st EXCEPT !.disc = [v \in DOMAIN st.disc \cup {u} |->
                                IF v = u THEN st.time ELSE st.disc[v]],
                   !.low = [v \in DOMAIN st.low \cup {u} |->
                                IF v = u THEN st.time ELSE st.low[v]],
                   !.time = @ + 1])

articulationAdj(G, u, parent, i, children, st) ==
    IF i > Len(neighbours(G, u))
    THEN IF parent = NULL /\ rootCuts(children)
         THEN [st EXCEPT !.points = @ \cup {u}]
         ELSE st
    ELSE LET w == neighbours(G, u)[i] IN
         IF w = parent \/ w = u
         THEN articulationAdj(G, u, parent, i + 1, children, st)
         ELSE IF w \in DOMAIN st.disc
         THEN articulationAdj(G, u, parent, i + 1, children,
                [st EXCEPT !.low[u] = min(@, st.disc[w])])
         ELSE LET sub == articulationScan(G, w, u, st)
                  cut == parent # NULL /\ cutsOff(sub.low[w], sub.disc[u])
              IN articulationAdj(G, u, parent, i + 1, children + 1,
                    [sub EXCEPT !.low[u] = min(@, sub.low[w]),
                                !.points = IF cut THEN @ \cup {u} ELSE @])

\* a fresh scan from every vertex not yet discovered
RECURSIVE articulationRoots(_, _, _)
articulationRoots(G, i, st) ==
    IF i > Len(getVertexSet(G)) THEN st
    ELSE LET v == getVertexSet(G)[i] IN
         articulationRoots(G, i + 1,
            IF v \in DOMAIN st.disc THEN st
            ELSE articulationScan(G, v, NULL, st))

articulationPoints(G) ==
    articulationRoots(G, 1, [disc |-> <<>>, low |-> <<>>, time |-> 1,
                             points |-> {}]).points

getEssentialAirports(G) == articulationPoints(G)

GetEssentialAirports ==
    /\ call.op = "none"
    /\ call' = [NoCall EXCEPT !.op = "getEssentialAirports"]
    /\ out' = [kind |-> "airports", airports |-> getEssentialAirports(flights)]
    /\ visited' = resetFlags(flights)
    /\ processing' = resetFlags(flights)
    /\ UNCHANGED <<flights, paths, result, routes, original, previous,
                   applied, num>>

----------------------------------------------------------------------------
(* getGlobalNumberOfFlights and numberOfFlightsPerAirline                  *)

\* a variant that counts the destinations of a vertex, not its edges
RECURSIVE getGlobalNumberOfRoutes(_, _, _)
getGlobalNumberOfRoutes(G, i, count) ==
    IF i > Len(getVertexSet(G)) THEN count
    ELSE getGlobalNumberOfRoutes(G, i + 1,
            count + Cardinality({e.dest : e \in Range(G[getVertexSet(G)[i]])}))
\* the loop over the vertex set, from vertex i on with the count so far
RECURSIVE getGlobalNumberOfFlights(_, _, _)
getGlobalNumberOfFlights(G, i, count) ==
    IF i > Len(getVertexSet(G)) THEN count
    ELSE getGlobalNumberOfFlights(G, i + 1,
                                  count + getOutdegree(G, getVertexSet(G)[i]))

\* airlineFlights[airline]++ on a map that starts an absent key at 0
increment(airlineFlights, airline) ==
    IF airline \in DOMAIN airlineFlights
    THEN [airlineFlights EXCEPT ![airline] = @ + 1]
    ELSE airlineFlights @@ (airline :> 1)

RECURSIVE countAdj(_, _, _)
countAdj(adj, j, airlineFlights) ==
    IF j > Len(adj) THEN airlineFlights
    ELSE countAdj(adj, j + 1, increment(airlineFlights, adj[j].airline))

\* the map numberOfFlightsPerAirline prints, one line per key
RECURSIVE numberOfFlightsPerAirline(_, _, _)
numberOfFlightsPerAirline(G, i, airlineFlights) ==
    IF i > Len(getVertexSet(G)) THEN airlineFlights
    ELSE numberOfFlightsPerAirline(G, i + 1,
            countAdj(G[getVertexSet(G)[i]], 1, airlineFlights))

GetGlobalNumberOfFlights ==
    /\ call.op = "none"
    /\ call' = [NoCall EXCEPT !.op = "getGlobalNumberOfFlights"]
    /\ out' = [kind |-> "value",
               value |-> getGlobalNumberOfFlights(flights, 1, 0)]
    /\ UNCHANGED <<flights, paths, result, routes, original, previous,
                   applied, visited, processing, num>>

NumberOfFlightsPerAirline ==
    /\ call.op = "none"
    /\ call' = [NoCall EXCEPT !.op = "numberOfFlightsPerAirline"]
    /\ out' = [kind |-> "perAirline",
               airlineFlights |->
                    numberOfFlightsPerAirline(flights, 1, [a \in {} |-> 0])]
    /\ UNCHANGED <<flights, paths, result, routes, original, previous,
                   applied, visited, processing, num>>

NextStatistics ==
    \/ GetEssentialAirports
    \/ GetGlobalNumberOfFlights
    \/ NumberOfFlightsPerAirline
    \/ GetTopAirportWithMostTraffic
    \/ ReturnToMenu
    \/ GetMaxTripWithStops
    \/ NumberOfReachableDestinationsFromAirport
    \/ NumberOfReachableDestinationsFromAirportWithStops
    \/ GetNumberOfFlightsFromAirport
    \/ GetNumberOfAirlinesFromAirport
    \/ GetNumberOfCountriesFromAirport
    \/ FindSmallestDistance

SpecStatistics == InitStatistics /\ [][NextStatistics]_vars

----------------------------------------------------------------------------
(* The queries by location                                                 *)

\* Airport::getPosition: the airports lie on one line, at these tenths of a
\* kilometre from its origin
getPosition(code) ==
    IF code = "A" THEN 0
    ELSE IF code = "B" THEN 14
    ELSE IF code = "C" THEN 20
    ELSE 46

\* Position::haversineDistance between two positions, in tenths of a
\* kilometre (a double in the program)
haversineDistance(p, q) == IF p < q THEN q - p ELSE p - q

\* the conversion (int) of a distance: whole kilometres, the rest cut off
toInt(distance) == distance \div 10

INT_MAX == 2147483647

\* a variant that gives a num to every airport of the airports table
setNumOfAirports(G, position) ==
    [v \in Airports |-> toInt(haversineDistance(position, getPosition(v)))]
\* the first loop of a query by coordinates: num of every vertex
setNum(G, position) ==
    [v \in DOMAIN G |->
        toInt(haversineDistance(position, getPosition(v)))]

\* the second loop: the codes of the vertices of least num, in vertex order
RECURSIVE minLoop(_, _, _, _, _)
minLoop(G, nums, i, minDistance, acc) ==
    IF i > Len(getVertexSet(G)) THEN acc
    ELSE LET vertex == getVertexSet(G)[i] IN
         IF nums[vertex] < minDistance
         THEN minLoop(G, nums, i + 1, nums[vertex], <<vertex>>)
         ELSE IF nums[vertex] = minDistance
         THEN minLoop(G, nums, i + 1, minDistance, Append(acc, vertex))
         ELSE minLoop(G, nums, i + 1, minDistance, acc)

nearestAirports(G, position) ==
    minLoop(G, setNum(G, position), 1, INT_MAX, <<>>)

\* the loops over the source and destination codes: one option per pair,
\* numbered from option on, each with what findBestFlightOptions returns
RECURSIVE fanOutFirst(_, _, _, _, _, _, _, _)
fanOutFirst(G, sourceCodes, destinationCodes, i, j, option, filtered, selectedAirlines) ==
    IF i > Len(sourceCodes) THEN <<>>
    ELSE IF j > Len(destinationCodes) \/ j > 1
    THEN fanOutFirst(G, sourceCodes, destinationCodes, i + 1, 1, option,
                     filtered, selectedAirlines)
    ELSE <<[option |-> option, source |-> sourceCodes[i],
            destination |-> destinationCodes[j],
            vec |-> IF filtered
                    THEN findBestFlightOptionsSelected(G, sourceCodes[i],
                            destinationCodes[j], selectedAirlines)
                    ELSE findBestFlightOptions(G, sourceCodes[i],
                                               destinationCodes[j])]>>
         \o fanOutFirst(G, sourceCodes, destinationCodes, i, j + 1,
                        option + 1, filtered, selectedAirlines)

RECURSIVE fanOut(_, _, _, _, _, _, _, _)
fanOut(G, sourceCodes, destinationCodes, i, j, option, filtered, selectedAirlines) ==
    IF i > Len(sourceCodes) THEN <<>>
    ELSE IF j > Len(destinationCodes)
    THEN fanOut(G, sourceCodes, destinationCodes, i + 1, 1, option,
                filtered, selectedAirlines)
    ELSE <<[option |-> option, source |-> sourceCodes[i],
            destination |-> destinationCodes[j],
            vec |-> IF filtered
                    THEN findBestFlightOptionsSelected(G, sourceCodes[i],
                            destinationCodes[j], selectedAirlines)
                    ELSE findBestFlightOptions(G, sourceCodes[i],
                                               destinationCodes[j])]>>
         \o fanOut(G, sourceCodes, destinationCodes, i, j + 1, option + 1,
                   filtered, selectedAirlines)

findBestFlightOptionsByAirportCodeToCoordinates(G, source, position) ==
    fanOut(G, <<source>>, nearestAirports(G, position), 1, 1, 1, FALSE, <<>>)

findBestFlightOptionsByCoordinatesToCoordinates(G, sourcePosition, destinationPosition) ==
    fanOut(G, nearestAirports(G, sourcePosition),
           nearestAirports(G, destinationPosition), 1, 1, 1, FALSE, <<>>)

\* the codes of the vertices of a city of a country, in vertex order
codesOfCity(G, city, country) ==
    LET inCity(code) == getCity(code) = city /\ getCountry(code) = country
    IN SelectSeq(getVertexSet(G), inCity)

findBestFlightOptionsByCity(G, sourceCity, sourceCountry, destinationCity, destinationCountry, filtered, selectedAirlines) ==
    fanOut(G, codesOfCity(G, sourceCity, sourceCountry),
           codesOfCity(G, destinationCity, destinationCountry), 1, 1, 1,
           filtered, selectedAirlines)

\* a variant that gives up at the first option without an itinerary
findBestFlightOptionsByCityToAirportCodeUntilFailure(G, sourceCity, sourceCountry, destinationCode) ==
    LET options == fanOut(G, codesOfCity(G, sourceCity, sourceCountry),
                          <<destinationCode>>, 1, 1, 1, FALSE, <<>>)
        failed == {i \in 1..Len(options) : options[i].vec = <<>>}
    IN IF failed = {} THEN options
       ELSE SubSeq(options, 1, CHOOSE i \in failed : \A j \in failed : i <= j)
findBestFlightOptionsByCityToAirportCode(G, sourceCity, sourceCountry, destinationCode) ==
    fanOut(G, codesOfCity(G, sourceCity, sourceCountry), <<destinationCode>>,
           1, 1, 1, FALSE, <<>>)

\* the positions asked for: nearer A than B but less than a kilometre from
\* both, as far from A as from B, and next to D
QueryPositions == {5, 7, 44}

\* the (city, country) pairs asked for; no airport is in Faro
QueryCities ==
    {<<"Porto", "PT">>, <<"Lisbon", "PT">>, <<"Porto", "US">>,
     <<"Faro", "PT">>}

\* the flags after a fan-out: shortestPathsBFS ran if there was an option
flagsAfter(G, options, flags) ==
    IF options = <<>> THEN flags ELSE resetFlags(G)

FindBestFlightOptionsByAirportCodeToCoordinates ==
    /\ call.op = "none"
    /\ \E source \in QuerySources, position \in QueryPositions :
        LET options == findBestFlightOptionsByAirportCodeToCoordinates(
                            flights, source, position)
        IN /\ call' = [op |-> "findBestFlightOptionsByAirportCodeToCoordinates",
                       source |-> source, destination |-> "",
                       selectedAirlines |-> <<>>, position |-> position]
           /\ out' = [kind |-> "options", options |-> options]
           /\ num' = setNum(flights, position)
           /\ visited' = flagsAfter(flights, options, visited)
           /\ processing' = flagsAfter(flights, options, processing)
    /\ UNCHANGED <<flights, paths, result, routes, original, previous,
                   applied>>

FindBestFlightOptionsByCoordinatesToCoordinates ==
    /\ call.op = "none"
    /\ \E sourcePosition \in QueryPositions, position \in QueryPositions :
        LET options == findBestFlightOptionsByCoordinatesToCoordinates(
                            flights, sourcePosition, position)
        IN /\ call' = [op |-> "findBestFlightOptionsByCoordinatesToCoordinates",
                       source |-> "", destination |-> "",
                       selectedAirlines |-> <<>>, position |-> position,
                       sourcePosition |-> sourcePosition]
           /\ out' = [kind |-> "options", options |-> options]
           /\ num' = setNum(flights, position)
           /\ visited' = flagsAfter(flights, options, visited)
           /\ processing' = flagsAfter(flights, options, processing)
    /\ UNCHANGED <<flights, paths, result, routes, original, previous,
                   applied>>

FindBestFlightOptionsByCity ==
    /\ call.op = "none"
    /\ \E sourceCity \in QueryCities, destinationCity \in QueryCities :
        LET options == findBestFlightOptionsByCity(flights,
                            sourceCity[1], sourceCity[2], destinationCity[1],
                            destinationCity[2], FALSE, <<>>)
        IN /\ call' = [op |-> "findBestFlightOptionsByCity", source |-> "",
                       destination |-> "", selectedAirlines |-> <<>>,
                       sourceCity |-> sourceCity,
                       destinationCity |-> destinationCity]
           /\ out' = [kind |-> "options", options |-> options]
           /\ visited' = flagsAfter(flights, options, visited)
           /\ processing' = flagsAfter(flights, options, processing)
    /\ UNCHANGED <<flights, paths, result, routes, original, previous,
                   applied, num>>

FindBestFlightOptionsByCitySelected ==
    /\ call.op = "none"
    /\ \E sourceCity \in QueryCities, destinationCity \in QueryCities :
        LET options == findBestFlightOptionsByCity(flights,
                            sourceCity[1], sourceCity[2], destinationCity[1],
                            destinationCity[2], TRUE, <<"X">>)
        IN /\ call' = [op |-> "findBestFlightOptionsByCitySelected",
                       source |-> "", destination |-> "",
                       selectedAirlines |-> <<"X">>,
                       sourceCity |-> sourceCity,
                       destinationCity |-> destinationCity]
           /\ out' = [kind |-> "options", options |-> options]
           /\ visited' = flagsAfter(flights, options, visited)
           /\ processing' = flagsAfter(flights, options, processing)
    /\ UNCHANGED <<flights, paths, result, routes, original, previous,
                   applied, num>>

FindBestFlightOptionsByCityToAirportCode ==
    /\ call.op = "none"
    /\ \E sourceCity \in QueryCities, destinationCode \in QueryCodes :
        LET options == findBestFlightOptionsByCityToAirportCode(flights,
                            sourceCity[1], sourceCity[2], destinationCode)
        IN /\ call' = [op |-> "findBestFlightOptionsByCityToAirportCode",
                       source |-> "", destination |-> destinationCode,
                       selectedAirlines |-> <<>>, sourceCity |-> sourceCity]
           /\ out' = [kind |-> "options", options |-> options]
           /\ visited' = flagsAfter(flights, options, visited)
           /\ processing' = flagsAfter(flights, options, processing)
    /\ UNCHANGED <<flights, paths, result, routes, original, previous,
                   applied, num>>

NextLocations ==
    \/ ReturnToMenu
    \/ FindBestFlightOptionsByCityToAirportCode
    \/ FindBestFlightOptionsByAirportCodeToCoordinates
    \/ FindBestFlightOptionsByCoordinatesToCoordinates
    \/ FindBestFlightOptionsByCity
    \/ FindBestFlightOptionsByCitySelected

SpecLocations == InitStatistics /\ [][NextLocations]_vars

----------------------------------------------------------------------------
(* getMaxTripWithStops statement by statement: out holds the locals of the *)
(* call in progress (the index i of the source, maxStops and               *)
(* maxTripAirports, and q, the local set, maxdistance and aux of           *)
(* calcStopsBFS); the flags are the ones on the vertices                   *)

EnterGetMaxTripWithStops ==
    /\ call.op = "none"
    /\ call' = [NoCall EXCEPT !.op = "getMaxTripWithStops"]
    /\ out' = [kind |-> "running", pc |-> "for", i |-> 1,
               acc |-> [maxStops |-> 0, maxTripAirports |-> <<>>],
               run |-> [q |-> <<>>, seen |-> {}, maxdistance |-> 0,
                        aux |-> <<>>]]
    /\ UNCHANGED <<flights, paths, result, routes, original, previous,
                   applied, visited, processing, num>>

\* the locals of calcStopsBFS out of the state of its loop
localsOf(st) ==
    [q |-> st.q, seen |-> st.seen, maxdistance |-> st.maxdistance,
     aux |-> st.aux]

EnterCalcStopsBFS ==
    /\ out.kind = "running" /\ out.pc = "for"
    /\ out.i <= Len(getVertexSet(flights))
    /\ LET st == bfsEntry(flights, getVertexSet(flights)[out.i], <<>>) IN
        /\ out' = [out EXCEPT !.pc = "while", !.run = localsOf(st)]
        /\ visited' = st.visited
        /\ processing' = st.processing
    /\ UNCHANGED <<flights, call, paths, result, routes, original, previous,
                   applied, num>>

WhileStep ==
    /\ out.kind = "running" /\ out.pc = "while"
    /\ out.run.q # <<>>
    /\ LET st == bfsStep(flights, getVertexSet(flights)[out.i],
                         out.run @@ [visited |-> visited,
                                     processing |-> processing]) IN
        /\ out' = [out EXCEPT !.run = localsOf(st)]
        /\ visited' = st.visited
        /\ processing' = st.processing
    /\ UNCHANGED <<flights, call, paths, result, routes, original, previous,
                   applied, num>>

LeaveCalcStopsBFS ==
    /\ out.kind = "running" /\ out.pc = "while"
    /\ out.run.q = <<>>
    /\ out' = [out EXCEPT !.pc = "for", !.i = @ + 1,
                          !.acc = keepLongest(@, out.run)]
    /\ UNCHANGED <<flights, call, paths, result, routes, original, previous,
                   applied, visited, processing, num>>

LeaveGetMaxTripWithStops ==
    /\ out.kind = "running" /\ out.pc = "for"
    /\ out.i > Len(getVertexSet(flights))
    /\ out' = [kind |-> "maxTrip", maxStops |-> out.acc.maxStops,
               maxTripAirports |-> out.acc.maxTripAirports]
    /\ UNCHANGED <<flights, call, paths, result, routes, original, previous,
                   applied, visited, processing, num>>

\* the statements of a call in progress
StepTraversal ==
    \/ EnterCalcStopsBFS
    \/ WhileStep
    \/ LeaveCalcStopsBFS
    \/ LeaveGetMaxTripWithStops

NextTraversal ==
    \/ EnterGetMaxTripWithStops
    \/ StepTraversal
    \/ ReturnToMenu
    \/ FindBestFlightOptionsByAirportCodeToCoordinates

\* the program is sequential: a call in progress takes its next statement
SpecTraversal ==
    InitStatistics /\ [][NextTraversal]_vars /\ WF_vars(StepTraversal)

----------------------------------------------------------------------------
(* Scratch state of the vertices                                           *)

\* C11: whenever a query has returned, every vertex is unvisited and
\* unprocessed (visited = false and processing = false on all of them)
C11_ScratchResetAfterQuery ==
    \A v \in DOMAIN flights : ~visited[v] /\ ~processing[v]

\* what a statistics query prints when it is the first query asked of the
\* freshly built graph
FreshOutput(c) ==
    IF c.op = "getMaxTripWithStops"
    THEN LET run == getMaxTripWithStops(flights, resetFlags(flights),
                                        resetFlags(flights))
         IN [kind |-> "maxTrip", maxStops |-> run.maxStops,
             maxTripAirports |-> run.maxTripAirports]
    ELSE IF c.op = "numberOfReachableDestinationsFromAirport"
    THEN [kind |-> "counts"] @@
         numberOfReachableDestinationsFromAirport(flights, c.source,
                                                  resetFlags(flights))
    ELSE [kind |-> "counts"] @@
         numberOfReachableDestinationsFromAirportWithStops(flights, c.source,
                                                           c.maxStops)

TraversalQueries ==
    {"getMaxTripWithStops", "numberOfReachableDestinationsFromAirport",
     "numberOfReachableDestinationsFromAirportWithStops"}

\* C12: a traversal query started from a vertex of the graph prints what it
\* prints as the first query on a fresh graph, whichever queries ran before
\* it; so numberOfReachableDestinationsFromAirport(s) reports the same
\* counts after getMaxTripWithStops as before
C12_NoStaleScratchObserved ==
    (call.op \in TraversalQueries /\ out.kind \in {"maxTrip", "counts"})
        => out = FreshOutput(call)

----------------------------------------------------------------------------
(* Airport codes that are no vertex                                        *)

\* the queries that take an airport code
CodeQueries ==
    {"getNumberOfFlightsFromAirport", "getNumberOfAirlinesFromAirport",
     "getNumberOfCountriesFromAirport",
     "numberOfReachableDestinationsFromAirport", "findSmallestDistance"}

\* C13: a query that takes an airport code fails with NotFound when the code
\* is no vertex of the graph: the missing vertex is not dereferenced and no
\* ordinary value is returned
C13_AbsentCodeIsNotFound ==
    (/\ call.op \in CodeQueries
     /\ \/ call.source \notin DOMAIN flights
        \/ call.op = "findSmallestDistance"
           /\ call.destination \notin DOMAIN flights)
        => out.kind = "NotFound"

----------------------------------------------------------------------------
(* Airports with most traffic                                              *)

\* flights entering plus flights leaving an airport
Traffic(v) ==
    Cardinality(UNION {{<<u, i>> : i \in {j \in 1..Len(flights[u]) :
                                            flights[u][j].dest = v}} :
                       u \in DOMAIN flights})
    + Len(flights[v])

\* C14: getTopAirportWithMostTraffic(k) lists nothing when k <= 0 or k is
\* above the number of vertices; otherwise it lists exactly k distinct
\* airports in non-increasing order of traffic, and no unlisted airport has
\* more traffic than the last one listed
C14_TopByTraffic ==
    call.op = "getTopAirportWithMostTraffic" =>
        LET k == call.k
            list == out.list
        IN IF k <= 0 \/ k > Cardinality(DOMAIN flights)
           THEN list = <<>>
           ELSE /\ Len(list) = k
                /\ \A i, j \in 1..k : i # j => list[i] # list[j]
                /\ \A i \in 1..(k - 1) : Traffic(list[i]) >= Traffic(list[i + 1])
                /\ \A v \in DOMAIN flights \ Range(list) :
                        Traffic(v) <= Traffic(list[k])

\* two airports are listed, the first with more traffic than the second,
\* and an airport of less traffic is left out
C14_Witness ==
    /\ call.op = "getTopAirportWithMostTraffic"
    /\ call.k = 2
    /\ Len(out.list) = 2
    /\ Traffic(out.list[1]) > Traffic(out.list[2])
    /\ \E v \in DOMAIN flights \ Range(out.list) :
            Traffic(v) < Traffic(out.list[2])

----------------------------------------------------------------------------
(* Reachable destinations                                                  *)

\* the airports other than s that some sequence of flights from s leads to
ReachableFrom(s) ==
    {d \in DOMAIN flights \ {s} : Reachable(flights, s, d)}

\* C15: the airport count numberOfReachableDestinationsFromAirport(source)
\* prints is the number of distinct airports reachable from source, the
\* source itself not counted, for every graph and every source vertex
C15_ReachableAirportCount ==
    (call.op = "numberOfReachableDestinationsFromAirport"
        /\ out.kind = "counts")
        => out.airports = Cardinality(ReachableFrom(call.source))

\* the airports other than s that at most n flights from s lead to
WithinHops(s, n) ==
    {d \in DOMAIN flights \ {s} :
        \E k \in HopCounts(flights, s, d, FALSE, {}) : k >= 1 /\ k <= n}

\* C16: the airport count numberOfReachableDestinationsFromAirportWithStops(
\* source, maxStops) prints is the number of distinct airports at hop
\* distance 1..maxStops+1 of the source, the source not counted: the size of
\* the set nodesAtDistanceBFS returns
C16_WithinStopsAirportCount ==
    (call.op = "numberOfReachableDestinationsFromAirportWithStops"
        /\ call.source \in DOMAIN flights)
        => /\ out.airports =
                Cardinality(WithinHops(call.source, call.maxStops + 1))
           /\ out.airports =
                Cardinality(nodesAtDistanceBFS(flights, call.source,
                                               call.maxStops + 1))

----------------------------------------------------------------------------
(* The longest of the shortest trips                                       *)

\* the pairs (s, t) with t reachable from s, and their hop distances
ConnectedPairs ==
    {p \in (DOMAIN flights) \X (DOMAIN flights) :
        Reachable(flights, p[1], p[2])}

PairDistance(p) == HopDistance(flights, p[1], p[2], FALSE, {})

\* the largest of the distances dist gives to the pairs (0 without pairs)
MaxEccentricity(dist) ==
    IF DOMAIN dist = {} THEN 0
    ELSE CHOOSE m \in {dist[p] : p \in DOMAIN dist} :
            \A p \in DOMAIN dist : dist[p] <= m

\* C17: getMaxTripWithStops prints the largest hop distance M of the network
\* and exactly the pairs (s, t) whose hop distance from s to t is M: each
\* such pair once, no pair of a smaller distance
C17_MaxTripPairs ==
    call.op = "getMaxTripWithStops" =>
        LET trips == out.maxTripAirports
            dist == [p \in ConnectedPairs |-> PairDistance(p)]
        IN /\ out.maxStops = MaxEccentricity(dist)
           /\ {<<trips[i].first, trips[i].second>> : i \in 1..Len(trips)}
                = {p \in DOMAIN dist : dist[p] = MaxEccentricity(dist)}
           /\ \A i, j \in 1..Len(trips) : i # j => trips[i] # trips[j]

\* the longest trip has two stops or more, it is printed twice for one
\* source, and the first source scanned has no trip as long
C17_Witness ==
    /\ call.op = "getMaxTripWithStops"
    /\ out.maxStops >= 2
    /\ \E i, j \in 1..Len(out.maxTripAirports) :
            /\ i # j
            /\ out.maxTripAirports[i].first = out.maxTripAirports[j].first
    /\ \A i \in 1..Len(out.maxTripAirports) :
            out.maxTripAirports[i].first # getVertexSet(flights)[1]

----------------------------------------------------------------------------
(* Essential airports                                                      *)

\* a flight joins u and v in one direction or the other
Joined(u, v) ==
    \/ \E i \in 1..Len(flights[u]) : flights[u][i].dest = v
    \/ \E i \in 1..Len(flights[v]) : flights[v][i].dest = u

\* the airports of V joined to a by flights between airports of V
RECURSIVE ComponentIn(_, _)
ComponentIn(V, part) ==
    LET more == {v \in V \ part : \E u \in part : Joined(u, v)}
    IN IF more = {} THEN part ELSE ComponentIn(V, part \cup more)

\* without v, two other airports that were joined are joined no longer
IsCutVertex(v) ==
    LET all == DOMAIN flights
        rest == all \ {v}
    IN \E a, b \in rest :
        /\ b \in ComponentIn(all, {a})
        /\ b \notin ComponentIn(rest, {a})

\* C20: getEssentialAirports returns exactly the cut vertices of the network
\* read as an undirected graph, those of every component; for a ring of
\* three or more airports it returns the empty set
C20_EssentialAreCutVertices ==
    call.op = "getEssentialAirports" =>
        out.airports = {v \in DOMAIN flights : IsCutVertex(v)}

\* a network of two components, one of them with a cut vertex
C20_Witness ==
    /\ call.op = "getEssentialAirports"
    /\ out.airports # {}
    /\ \E a, b \in DOMAIN flights : b \notin ComponentIn(DOMAIN flights, {a})

\* the ring A->B->C->A: no airport is essential
C20_RingWitness ==
    /\ call.op = "getEssentialAirports"
    /\ out.airports = {}
    /\ DOMAIN flights = {"A", "B", "C"}
    /\ \A v \in DOMAIN flights :
            Len(flights[v]) = 1 /\ flights[v][1].dest # v

----------------------------------------------------------------------------
(* Queries by coordinates and by city                                      *)

\* the distance of an airport to a position, uncut
DistanceTo(position, v) ==
    IF getPosition(v) < position THEN position - getPosition(v)
    ELSE getPosition(v) - position

\* the airports of the graph no other airport is nearer the position than
Nearest(position) ==
    {v \in DOMAIN flights :
        \A w \in DOMAIN flights :
            DistanceTo(position, v) <= DistanceTo(position, w)}

\* C18: the candidates of a query by coordinates are exactly the airports of
\* the graph at the least distance of the position (several on a tie, never
\* an airport strictly farther), and findBestFlightOptions is run once for
\* each of them
C18_ExactlyTheNearest ==
    call.op = "findBestFlightOptionsByAirportCodeToCoordinates" =>
        /\ {out.options[i].destination : i \in 1..Len(out.options)}
            = Nearest(call.position)
        /\ Len(out.options) = Cardinality(Nearest(call.position))

\* the airports of the graph in a city of a country
AirportsOf(city) ==
    {v \in DOMAIN flights : getCity(v) = city[1] /\ getCountry(v) = city[2]}

CityQueries ==
    {"findBestFlightOptionsByCity", "findBestFlightOptionsByCitySelected"}

\* what findBestFlightOptions returns for the pair of an option
OptionResult(o) ==
    IF call.op = "findBestFlightOptionsByCity"
    THEN findBestFlightOptions(flights, o.source, o.destination)
    ELSE findBestFlightOptionsSelected(flights, o.source, o.destination,
                                       call.selectedAirlines)

\* C19: findBestFlightOptionsByCity runs findBestFlightOptions once for every
\* pair of S x D, S the graph airports of the source (city, country) and D
\* those of the destination, each pair an option of its own, the options
\* numbered 1, 2, 3, ...: |S| * |D| options in all
C19_CrossProductOfCities ==
    call.op \in CityQueries =>
        LET S == AirportsOf(call.sourceCity)
            D == AirportsOf(call.destinationCity)
            options == out.options
        IN /\ Len(options) = Cardinality(S) * Cardinality(D)
           /\ {<<options[i].source, options[i].destination>> :
                    i \in 1..Len(options)} = S \X D
           /\ \A i \in 1..Len(options) :
                /\ options[i].option = i
                /\ options[i].vec = OptionResult(options[i])

\* two airports in the source city and two in the destination city: four
\* options, one of them with an itinerary and one without
C19_Witness ==
    /\ call.op = "findBestFlightOptionsByCity"
    /\ Cardinality(AirportsOf(call.sourceCity)) = 2
    /\ Cardinality(AirportsOf(call.destinationCity)) = 2
    /\ Len(out.options) = 4
    /\ \E i \in 1..4 : out.options[i].vec = <<>>
    /\ \E i \in 1..4 : \E k \in 1..Len(out.options[i].vec) :
            out.options[i].vec[k] # <<>>

----------------------------------------------------------------------------
(* More stops, more destinations                                           *)

\* C21: nodesAtDistanceBFS(s, 0) is empty, nodesAtDistanceBFS(s, a) is a
\* subset of nodesAtDistanceBFS(s, b) for every a <= b, and the airport count
\* numberOfReachableDestinationsFromAirportWithStops prints for s is at least
\* the count it prints for s with any smaller number of stops
C21_CountGrowsWithStops ==
    (call.op = "numberOfReachableDestinationsFromAirportWithStops"
        /\ call.source \in DOMAIN flights)
        => LET s == call.source
               b == call.maxStops + 1
           IN /\ nodesAtDistanceBFS(flights, s, 0) = {}
              /\ \A a \in 0..b : nodesAtDistanceBFS(flights, s, a)
                                    \subseteq nodesAtDistanceBFS(flights, s, b)
              /\ \A a \in 0..b :
                    numberOfReachableDestinationsFromAirportWithStops(
                        flights, s, a - 1).airports <= out.airports

----------------------------------------------------------------------------
(* A filter that leaves no path                                            *)

\* C22: when no sequence of flights of the allowed airlines leads from s to
\* d, findBestFlightOptions(s, d, A) returns the empty list of itineraries:
\* no itinerary at all, so none with a hop whose airline list is empty
C22_NoAllowedPathNoItinerary ==
    (IsSelected
        /\ HopCounts(flights, call.source, call.destination, TRUE,
                     AllowedAirlines(call.selectedAirlines)) = {})
        => paths = <<>>

\* the destination is reachable from the source, but not with the selected
\* airlines alone, and nothing was returned
C22_Witness ==
    /\ IsSelected
    /\ call.selectedAirlines # <<>>
    /\ Reachable(flights, call.source, call.destination)
    /\ HopCounts(flights, call.source, call.destination, TRUE,
                 Range(call.selectedAirlines)) = {}
    /\ paths = <<>>

----------------------------------------------------------------------------
(* A fan-out goes on after a failure                                       *)

FanOutQueries == CityQueries \cup {"findBestFlightOptionsByCityToAirportCode"}

\* the destinations a fan-out query combines its sources with
FanOutDestinations ==
    IF call.op \in CityQueries THEN AirportsOf(call.destinationCity)
    ELSE {call.destination}

\* what the search returns for one combination, asked on its own
OutcomeOf(s, d) ==
    IF call.op = "findBestFlightOptionsByCitySelected"
    THEN findBestFlightOptionsSelected(flights, s, d, call.selectedAirlines)
    ELSE findBestFlightOptions(flights, s, d)

\* C23: in findBestFlightOptionsByCity and
\* findBestFlightOptionsByCityToAirportCode every combination of a resolved
\* source with a destination is attempted and reported as an option of its
\* own, with the outcome the search has for that combination, also when an
\* earlier combination had no path or an endpoint that is no vertex
C23_FanOutGoesOn ==
    call.op \in FanOutQueries =>
        \A s \in AirportsOf(call.sourceCity), d \in FanOutDestinations :
            \E i \in 1..Len(out.options) :
                /\ out.options[i].option = i
                /\ out.options[i].source = s
                /\ out.options[i].destination = d
                /\ out.options[i].vec = OutcomeOf(s, d)

\* the first source of the city has no path to the destination code, the
\* second one has an itinerary
C23_Witness ==
    /\ call.op = "findBestFlightOptionsByCityToAirportCode"
    /\ Len(out.options) = 2
    /\ out.options[1].vec = <<>>
    /\ out.options[2].vec # <<>>

\* the destination code is no vertex: both sources of the city are reported
C23_AbsentWitness ==
    /\ call.op = "findBestFlightOptionsByCityToAirportCode"
    /\ call.destination \notin DOMAIN flights
    /\ Len(out.options) = 2

----------------------------------------------------------------------------
(* Flights counted                                                         *)

\* the directed edges of the multigraph, one element per edge
DirectedEdges ==
    UNION {{<<u, i>> : i \in 1..Len(flights[u])} : u \in DOMAIN flights}

\* the edges an airline operates
EdgesOf(a) == {e \in DirectedEdges : flights[e[1]][e[2]].airline = a}

\* the sum of the values of a map
RECURSIVE SumOver(_)
SumOver(f) ==
    IF DOMAIN f = {} THEN 0
    ELSE LET a == CHOOSE x \in DOMAIN f : TRUE
         IN f[a] + SumOver([x \in DOMAIN f \ {a} |-> f[x]])

\* C24: getGlobalNumberOfFlights returns the number of directed edges of the
\* multigraph, parallel edges counted one by one, which is the sum over the
\* airlines of the counts numberOfFlightsPerAirline computes; each of those
\* counts is the number of edges the airline operates
C24_FlightsCounted ==
    /\ call.op = "getGlobalNumberOfFlights" =>
            /\ out.value = Cardinality(DirectedEdges)
            /\ out.value = SumOver(numberOfFlightsPerAirline(flights, 1,
                                                             [a \in {} |-> 0]))
    /\ call.op = "numberOfFlightsPerAirline" =>
            /\ SumOver(out.airlineFlights) = getGlobalNumberOfFlights(flights, 1, 0)
            /\ \A a \in Airlines :
                    IF EdgesOf(a) = {} THEN a \notin DOMAIN out.airlineFlights
                    ELSE out.airlineFlights[a] = Cardinality(EdgesOf(a))

\* a flight that is in the data twice and a flight of the other airline
\* between the same two airports: three parallel edges among the flights
C24_Witness ==
    /\ call.op = "getGlobalNumberOfFlights"
    /\ out.value >= 3
    /\ \E u \in DOMAIN flights : \E i, j, k \in 1..Len(flights[u]) :
            /\ i < j /\ j < k
            /\ flights[u][i] = flights[u][j]
            /\ flights[u][k].dest = flights[u][i].dest
            /\ flights[u][k].airline # flights[u][i].airline

----------------------------------------------------------------------------
(* The traversal ends                                                      *)

\* the positions of the queue that hold vertex v
QueuedAt(v) == {k \in 1..Len(out.run.q) : out.run.q[k][1] = v}

\* a vertex of the local set is in the queue once and not yet popped, or
\* it was popped and is not in the queue; no other vertex is in the queue
EnqueuedOnce ==
    (out.kind = "running" /\ out.pc = "while") =>
        \A v \in DOMAIN flights :
            IF v \in out.run.seen
            THEN \/ Cardinality(QueuedAt(v)) = 1 /\ ~visited[v]
                 \/ QueuedAt(v) = {} /\ visited[v]
            ELSE QueuedAt(v) = {} /\ ~visited[v]

\* C25: while calcStopsBFS runs, no vertex is enqueued more than once (a
\* vertex is in the queue at most once and never again after it was
\* popped), and a getMaxTripWithStops in progress eventually returns, on
\* every network, with cycles, self-loops and parallel edges
C25_MaxTripReturns ==
    /\ []EnqueuedOnce
    /\ (out.kind = "running") ~> (out.kind = "maxTrip")

\* the call has returned a trip of two stops on a network with the ring
\* A->B->C->A and a flight from A to A
C25_Witness ==
    /\ out.kind = "maxTrip"
    /\ out.maxStops = 2
    /\ "A" \in DOMAIN flights
    /\ \E i \in 1..Len(flights["A"]) : flights["A"][i].dest = "A"
    /\ Reachable(flights, "B", "A")

\* parallel edges: the loop is at a vertex with two flights to one
\* destination, which is in the queue once
C25_ParallelWitness ==
    /\ out.kind = "running" /\ out.pc = "while"
    /\ \E u \in DOMAIN flights : \E i, j \in 1..Len(flights[u]) :
            /\ i < j
            /\ flights[u][i].dest = flights[u][j].dest
            /\ visited[u]
            /\ Cardinality(QueuedAt(flights[u][i].dest)) = 1

----------------------------------------------------------------------------
(* The graph is read-only                                                  *)

----------------------------------------------------------------------------
(* Cities and countries reached                                            *)

ReachabilityQueries ==
    {"numberOfReachableDestinationsFromAirport",
     "numberOfReachableDestinationsFromAirportWithStops"}

\* the airports other than the source that the query of the last call is
\* to count: all reachable ones, or those within maxStops + 1 flights
CountedAirports ==
    IF call.op = "numberOfReachableDestinationsFromAirport"
    THEN ReachableFrom(call.source)
    ELSE WithinHops(call.source, call.maxStops + 1)

\* C27: the city count a reachability query prints is the number of distinct
\* (city, country) pairs of the reachable airports other than the source,
\* and the country count the number of distinct countries of those
\* airports; the city (country) of the source is counted only when another
\* reachable airport lies in it
C27_CitiesAndCountriesReached ==
    (call.op \in ReachabilityQueries /\ out.kind = "counts"
        /\ call.source \in DOMAIN flights)
        => /\ out.cities =
                Cardinality({<<getCity(c), getCountry(c)>> : c \in CountedAirports})
           /\ out.countries =
                Cardinality({getCountry(c) : c \in CountedAirports})

----------------------------------------------------------------------------
(* A rewritten itinerary can be flown                                      *)

\* C28: every airline minimizeAirlines leaves on a hop is an airline the
\* itinerary it was given lists for that hop, whatever the number of times
\* an airline is listed on a hop (one listing per parallel flight)
C28_RewrittenHopsKeepTheirAirlines ==
    IsFewest =>
        \A i \in 1..Len(paths) : \A h \in 1..Len(paths[i]) :
            Range(paths[i][h].airlines)
                \subseteq Range(Unfiltered[i][h].airlines)

----------------------------------------------------------------------------
(* Counts that do not wrap                                                 *)

\* C29: the counts a reachability query prints never wrap around: none is
\* above the number of airports, and the airport count is 0 when the
\* traversal returns no airport other than the source (a source without
\* outgoing flights, or a hop bound of 0)
C29_CountsDoNotWrap ==
    (call.op \in ReachabilityQueries /\ out.kind = "counts"
        /\ call.source \in DOMAIN flights)
        => /\ out.airports <= Cardinality(Airports)
           /\ out.cities <= Cardinality(Airports)
           /\ out.countries <= Cardinality(Airports)
           /\ CountedAirports = {} => out.airports = 0

----------------------------------------------------------------------------
(* Itineraries chain                                                       *)

\* the hops of an itinerary lead from s to d over flights of the graph
Chains(itinerary, s, d) ==
    /\ AirportSequence(s, itinerary)[Len(itinerary) + 1] = d
    /\ \A h \in 1..Len(itinerary) :
        /\ itinerary[h].source = AirportSequence(s, itinerary)[h]
        /\ HasFlight(flights, itinerary[h].source, itinerary[h].target,
                     FALSE, {})

\* C30: every itinerary findBestFlightOptions returns, with or without an
\* airline list, chains: its first hop starts at the source, its last hop
\* ends at the destination, every hop starts where the one before it ends,
\* every hop is a flight of the graph, and no hop has an empty airline list
C30_ItinerariesChain ==
    (IsUnfiltered \/ IsSelected) =>
        \A i \in 1..Len(paths) :
            /\ Chains(paths[i], call.source, call.destination)
            /\ \A h \in 1..Len(paths[i]) : paths[i][h].airlines # <<>>

====
